---- MODULE Spec2Model ----
(***************************************************************************)
(* A model of pbr/version.py: the SemanticVersion value type (construction, *)
(* comparison, parsing, rendering, arithmetic) and the VersionInfo object   *)
(* with its two lazily filled fields.                                       *)
(*                                                                          *)
(* Python values are encoded as follows.                                    *)
(*   - a str is a sequence of one-character strings: "0a1" is <<"0","a","1">>*)
(*   - an optional value is a sequence of length at most one: None is <<>>  *)
(*     and the value x is <<x>>; so None, 0 and "" are three distinct values *)
(*   - a call's outcome is a record [ok, err, val]: ok = FALSE means that    *)
(*     the exception named by err was raised.                               *)
(***************************************************************************)
EXTENDS Integers, Sequences, FiniteSets, TLC

VARIABLES self, op, arg, res, package_version, _semantic, _cached_version, lookups, calls, returned, pc, method, prefix_of, local

vars == <<self, op, arg, res, package_version, _semantic, _cached_version, lookups, calls, returned, pc, method, prefix_of, local>>

coreVars == <<self, op, arg, res>>

objVars == <<_semantic, _cached_version, lookups, calls, returned>>

threadVars == <<pc, method, prefix_of, local>>

infoVars == <<package_version, _semantic, _cached_version, lookups, calls, returned, pc, method, prefix_of, local>>

(***************************************************************************)
(* Bounds of the exploration.                                               *)
(***************************************************************************)
MaxNum == 1

MaxSerial == 1

MaxDev == 2

NumThreads == 2

MaxCalls == 3

(***************************************************************************)
(* Python primitives.                                                       *)
(***************************************************************************)
None == <<>>

Some(x) == <<x>>

Ok(v) == [ok |-> TRUE, err |-> "", val |-> v]

Raise(e) == [ok |-> FALSE, err |-> e, val |-> None]

Digits == <<"0", "1", "2", "3", "4", "5", "6", "7", "8", "9">>

IsDigit(c) == \E i \in 1..10 : Digits[i] = c

DigitVal(c) == (CHOOSE i \in 1..10 : Digits[i] = c) - 1

Letters == <<"a", "b", "c", "d", "e", "g", "h", "r", "v", "x">>

IsAlpha(c) == \E i \in 1..Len(Letters) : Letters[i] = c

\* Code point order of the characters the model uses: '.' < digits < letters.
Ord(c) ==
    IF c = "." THEN 0
    ELSE IF IsDigit(c) THEN 1 + DigitVal(c)
    ELSE 10 + (CHOOSE i \in 1..Len(Letters) : Letters[i] = c)

\* str < str: lexicographic by code point.
RECURSIVE StrLt(_, _)
StrLt(s, t) ==
    IF t = <<>> THEN FALSE
    ELSE IF s = <<>> THEN TRUE
    ELSE IF Ord(Head(s)) < Ord(Head(t)) THEN TRUE
    ELSE IF Ord(Head(s)) > Ord(Head(t)) THEN FALSE
    ELSE StrLt(Tail(s), Tail(t))

\* str(n) for an int n >= 0.
RECURSIVE StrOfInt(_)
StrOfInt(n) ==
    IF n < 10 THEN <<Digits[n + 1]>>
    ELSE StrOfInt(n \div 10) \o <<Digits[(n % 10) + 1]>>

RECURSIVE DigitsValue(_, _)
DigitsValue(s, acc) ==
    IF s = <<>> THEN acc
    ELSE DigitsValue(Tail(s), 10 * acc + DigitVal(Head(s)))

\* int(s) over the model's alphabet (digits, letters, no sign or blanks):
\* the decimal value of a non-empty run of digits, ValueError otherwise.
IntOf(s) ==
    IF s # <<>> /\ \A i \in 1..Len(s) : IsDigit(s[i])
    THEN Ok(DigitsValue(s, 0))
    ELSE Raise("ValueError")

_is_int(s) == IntOf(s).ok

\* s.split('.')
RECURSIVE Split(_, _)
Split(s, cur) ==
    IF s = <<>> THEN <<cur>>
    ELSE IF Head(s) = "." THEN <<cur>> \o Split(Tail(s), <<>>)
    ELSE Split(Tail(s), Append(cur, Head(s)))

\* itertools.dropwhile(isdigit, s)
RECURSIVE DropDigits(_)
DropDigits(s) ==
    IF s # <<>> /\ IsDigit(Head(s)) THEN DropDigits(Tail(s)) ELSE s

\* itertools.takewhile(isalpha, s)
RECURSIVE TakeAlpha(_)
TakeAlpha(s) ==
    IF s # <<>> /\ IsAlpha(Head(s)) THEN <<Head(s)>> \o TakeAlpha(Tail(s)) ELSE <<>>

\* s[n:]
From(s, n) == IF n >= Len(s) THEN <<>> ELSE SubSeq(s, n + 1, Len(s))

\* "".join(parts)
RECURSIVE Concat(_)
Concat(parts) ==
    IF parts = <<>> THEN <<>> ELSE Head(parts) \o Concat(Tail(parts))

\* Truth value of an optional int (None and 0 are false) and of an optional
\* str (None and "" are false).
TruthyInt(o) == o # None /\ o[1] # 0

TruthyStr(o) == o # None /\ o[1] # <<>>

(***************************************************************************)
(* class SemanticVersion                                                    *)
(***************************************************************************)
Version(major, minor, patch, prerelease_type, prerelease, dev_count, githash) ==
    [major |-> major, minor |-> minor, patch |-> patch,
     prerelease_type |-> prerelease_type, prerelease |-> prerelease,
     dev_count |-> dev_count, githash |-> githash]

\* __init__ without its check of prerelease_type against dev_count.
SemanticVersionUnchecked(major, minor, patch, prerelease_type, prerelease, dev_count, githash) ==
    Ok(Version(major, minor, patch, prerelease_type,
               IF TruthyStr(prerelease_type) /\ ~TruthyInt(prerelease)
               THEN Some(0) ELSE prerelease,
               dev_count, githash))

\* SemanticVersion.__init__: the fields are stored as given, the serial of a
\* prerelease defaults to 0, and a prerelease type together with a dev count
\* is refused (both tested with "is not None").
SemanticVersion(major, minor, patch, prerelease_type, prerelease, dev_count, githash) ==
    IF prerelease_type # None /\ dev_count # None
    THEN Raise("ValueError")
    ELSE Ok(Version(major, minor, patch, prerelease_type,
                    IF TruthyStr(prerelease_type) /\ ~TruthyInt(prerelease)
                    THEN Some(0) ELSE prerelease,
                    dev_count, githash))

\* __eq__: equality of the two objects' __dict__.
Eq(a, b) == a = b

\* (x1, x2, x3) < (y1, y2, y3) on tuples of ints.
TripleLt(a, b) ==
    \/ a.major < b.major
    \/ a.major = b.major /\ a.minor < b.minor
    \/ a.major = b.major /\ a.minor = b.minor /\ a.patch < b.patch

\* (type, serial) < (type', serial'): str order, then int order.
PreLt(a, b) ==
    \/ StrLt(a.prerelease_type[1], b.prerelease_type[1])
    \/ a.prerelease_type[1] = b.prerelease_type[1] /\ a.prerelease[1] < b.prerelease[1]

\* __lt__
Lt(a, b) ==
    IF TripleLt(a, b) THEN Ok(TRUE)
    ELSE IF TripleLt(b, a) THEN Ok(FALSE)
    ELSE IF TruthyStr(a.prerelease_type) THEN
        IF TruthyStr(b.prerelease_type) THEN Ok(PreLt(a, b))
        ELSE IF TruthyInt(b.dev_count) THEN Raise("TypeError")
        ELSE Ok(TRUE)
    ELSE IF TruthyInt(a.dev_count) THEN
        IF TruthyInt(b.dev_count) THEN
            IF a.dev_count[1] < b.dev_count[1] THEN Ok(TRUE)
            ELSE IF a.dev_count[1] > b.dev_count[1] THEN Ok(FALSE)
            ELSE IF a.githash = b.githash THEN Ok(FALSE)
            ELSE Raise("TypeError")
        ELSE IF TruthyStr(b.prerelease_type) THEN Raise("TypeError")
        ELSE Ok(TRUE)
    ELSE Ok(FALSE)

\* __le__: self == other or self < other
Le(a, b) == IF Eq(a, b) THEN Ok(TRUE) ELSE Lt(a, b)

\* not r, an exception of r passing through
NotOf(r) == IF r.ok THEN Ok(~r.val) ELSE r

\* __ge__: not self < other
Ge(a, b) == NotOf(Lt(a, b))

\* __gt__: not self <= other
Gt(a, b) == NotOf(Le(a, b))

\* __ne__
Ne(a, b) == ~Eq(a, b)

\* brief_string
brief_string(v) ==
    Concat(<<StrOfInt(v.major), <<".">>, StrOfInt(v.minor), <<".">>, StrOfInt(v.patch)>>)

\* The rollover ceiling of decrement.
Rollover == 9999

\* decrement
decrement(v) ==
    IF v.patch # 0
    THEN SemanticVersion(v.major, v.minor, v.patch - 1, None, None, None, None)
    ELSE IF v.minor # 0
    THEN SemanticVersion(v.major, v.minor - 1, Rollover, None, None, None, None)
    ELSE IF v.major # 0
    THEN SemanticVersion(v.major - 1, Rollover, Rollover, None, None, None, None)
    ELSE SemanticVersion(0, Rollover, Rollover, None, None, None, None)

\* increment(minor, major)
increment(v, minor, major) ==
    LET pre == TruthyStr(v.prerelease_type)
        keep == pre /\ ~minor /\ ~major
    IN  SemanticVersion(
            IF major THEN v.major + 1 ELSE v.major,
            IF major THEN 0 ELSE IF minor THEN v.minor + 1 ELSE v.minor,
            IF major \/ minor THEN 0 ELSE IF pre THEN v.patch ELSE v.patch + 1,
            IF keep THEN v.prerelease_type ELSE None,
            IF keep THEN Some(v.prerelease[1] + 1) ELSE None,
            None, None)

\* to_dev(dev_count, githash)
to_dev(v, dev_count, githash) ==
    SemanticVersion(v.major, v.minor, v.patch, None, None, dev_count, githash)

\* to_release
to_release(v) ==
    SemanticVersion(v.major, v.minor, v.patch, None, None, None, None)

\* _long_version(pre_separator, hash_separator, rc_marker); pre_separator is
\* optional (None asks for the rollover rendering).
_long_version(v, pre_separator, hash_separator, rc_marker) ==
    LET roll == (TruthyStr(v.prerelease_type) \/ TruthyInt(v.dev_count))
                /\ pre_separator = None
        sep == IF pre_separator = None THEN <<".">> ELSE pre_separator[1]
        base == IF roll THEN brief_string(decrement(v).val) ELSE brief_string(v)
        pre == IF TruthyStr(v.prerelease_type)
               THEN Concat(<<sep, rc_marker, v.prerelease_type[1], StrOfInt(v.prerelease[1])>>)
               ELSE <<>>
        dev == IF TruthyInt(v.dev_count)
               THEN Concat(<<sep, <<"d", "e", "v">>, StrOfInt(v.dev_count[1])>>)
                    \o (IF TruthyStr(v.githash) THEN hash_separator \o v.githash[1] ELSE <<>>)
               ELSE <<>>
    IN  Concat(<<base, pre, dev>>)

\* release_string
release_string(v) == _long_version(v, Some(<<".">>), <<".", "g">>, <<"0">>)

\* debian_string
debian_string(v) == _long_version(v, Some(<<"~">>), <<"+", "g">>, <<>>)

\* rpm_string
rpm_string(v) == _long_version(v, None, <<"+", "g">>, <<>>)

\* _parse_type(segment), the helper of from_pip_string: the leading digits
\* are dropped, the run of letters is the type, the rest is the serial.
_parse_type(segment) ==
    LET rest == DropDigits(segment)
        prerelease_type == TakeAlpha(rest)
        prerelease == IntOf(From(rest, Len(prerelease_type)))
    IN  IF prerelease.ok
        THEN Ok([prerelease_type |-> prerelease_type, prerelease |-> prerelease.val])
        ELSE Raise("ValueError")

\* The tail of from_pip_string once the prerelease segment is consumed:
\* the dev count of the modern layout, the hash, the constructor.
ParseDevAndHash(major, minor, patch, prerelease_type, prerelease, remainder) ==
    LET dev == IF remainder # <<>> THEN IntOf(From(remainder[1], 3)) ELSE Ok(0)
        githash == IF Len(remainder) > 1 THEN Some(From(remainder[2], 1)) ELSE None
    IN  IF ~dev.ok THEN Raise("ValueError")
        ELSE SemanticVersion(major, minor, patch, prerelease_type, prerelease,
                             IF remainder # <<>> THEN Some(dev.val) ELSE None, githash)

\* from_pip_string(version_string). The int 0 the code pads with is written
\* "0": a padded component is only ever read through int().
from_pip_string(version_string) ==
    LET split == Split(version_string, <<>>)
        components == IF Len(split) < 3
                      THEN split \o [i \in 1..(3 - Len(split)) |-> <<"0">>]
                      ELSE split
        major == IntOf(components[1])
        minor == IntOf(components[2])
        patch == IF _is_int(components[3]) THEN IntOf(components[3]).val ELSE 0
        remainder == IF _is_int(components[3]) THEN From(components, 3) ELSE From(components, 2)
        remainder_starts_with_int ==
            /\ remainder # <<>>
            /\ IntOf(remainder[1]).ok
            /\ IntOf(remainder[1]).val # 0
    IN  IF ~major.ok \/ ~minor.ok THEN Raise("ValueError")
        ELSE IF remainder_starts_with_int
        THEN SemanticVersion(major.val, minor.val, patch, None, None,
                             Some(IntOf(remainder[1]).val),
                             IF Len(remainder) > 1 THEN Some(From(remainder[2], 1)) ELSE None)
        ELSE IF remainder # <<>> /\ remainder[1] = <<>> THEN Raise("IndexError")
        ELSE IF remainder # <<>> /\ (remainder[1][1] = "0" \/ remainder[1][1] \in {"a", "b", "rc"})
        THEN LET parsed == _parse_type(remainder[1])
             IN  IF ~parsed.ok THEN Raise("ValueError")
                 ELSE ParseDevAndHash(major.val, minor.val, patch,
                                      Some(parsed.val.prerelease_type),
                                      Some(parsed.val.prerelease), Tail(remainder))
        ELSE ParseDevAndHash(major.val, minor.val, patch, None, None, remainder)

(***************************************************************************)
(* The inputs the operations are applied to.                                *)
(***************************************************************************)
Nums == 0..MaxNum

TypeArgs == {None, Some(<<"a">>), Some(<<"b">>), Some(<<"r", "c">>)}

SerialArgs == {None} \cup {Some(n) : n \in 0..MaxSerial}

DevArgs == {None} \cup {Some(n) : n \in 0..MaxDev}

Hashes == {<<"a">>, <<"b", "1">>}

HashArgs == {None} \cup {Some(h) : h \in Hashes}

\* Constructor arguments: a serial comes with a type and a hash with a dev
\* count (section 3 of the data model); a type and a dev count may both be
\* given, which the constructor refuses.
ConstructArgs ==
    {a \in [major : Nums, minor : Nums, patch : Nums, prerelease_type : TypeArgs,
            prerelease : SerialArgs, dev_count : DevArgs, githash : HashArgs] :
        /\ a.prerelease_type = None => a.prerelease = None
        /\ a.dev_count = None => a.githash = None}

Construct_(a) ==
    SemanticVersion(a.major, a.minor, a.patch, a.prerelease_type, a.prerelease,
                    a.dev_count, a.githash)

\* The versions direct construction yields.
InputVersions == {Construct_(a).val : a \in {x \in ConstructArgs : Construct_(x).ok}}

\* text.join('.')
RECURSIVE Join(_)
Join(parts) ==
    IF Len(parts) = 1 THEN parts[1]
    ELSE parts[1] \o <<".">> \o Join(Tail(parts))

NumTexts == {StrOfInt(n) : n \in Nums}

\* Third components: a patch number, or a qualifier fused to major.minor.
ThirdTexts == NumTexts \cup {<<"0", "a", "1">>, <<"b", "1">>, <<"d", "e", "v", "1">>}

\* Components after the patch: legacy dev counters, prerelease segments, dev
\* segments, hash segments and malformed ones.
QualTexts ==
    {StrOfInt(n) : n \in 0..MaxDev}
    \cup {<<"0", "a", "1">>, <<"0", "b", "0">>, <<"0", "r", "c", "1">>, <<"a", "1">>,
          <<"r", "c", "1">>, <<"0", "a">>, <<"d", "e", "v", "0">>, <<"d", "e", "v", "1">>,
          <<"d", "e", "v">>, <<>>}
    \cup {<<"g">> \o h : h \in Hashes}

\* Second components after the patch: a dev segment or a hash segment.
TailTexts == {<<"d", "e", "v", "1">>, <<"1">>} \cup {<<"g">> \o h : h \in Hashes}

MinorTexts == {<<"0">>, <<"1", "0">>}

\* The version strings handed to the parser.
Texts ==
    {Join(<<a>>) : a \in NumTexts \cup {<<"x">>}}
    \cup {Join(<<a, b>>) : a \in NumTexts, b \in MinorTexts \cup {<<"x">>}}
    \cup {Join(<<a, b, c>>) : a \in NumTexts, b \in MinorTexts, c \in ThirdTexts}
    \cup {Join(<<a, b, c, d>>) : a \in NumTexts, b \in MinorTexts, c \in ThirdTexts, d \in QualTexts}
    \cup {Join(<<a, b, c, d, e>>) : a \in NumTexts, b \in MinorTexts, c \in ThirdTexts,
                                    d \in QualTexts, e \in TailTexts}

Prefixes == {<<>>, <<"v">>, <<"r", "c">>}

PackageVersions ==
    {<<"1", ".", "0", ".", "0">>, <<"1", ".", "2", ".", "0", "a", "1">>,
     <<"0", ".", "1", "0", ".", "1", ".", "3", ".", "g", "8", "3">>, <<"x", ".", "1">>}

Threads == 1..NumThreads

(***************************************************************************)
(* The state after construction: no version made yet, a fresh VersionInfo   *)
(* (its three fields None), every thread outside the object.                *)
(***************************************************************************)
NoVersionMade ==
    /\ self = None
    /\ op = "none"
    /\ arg = None
    /\ res = None

FreshVersionInfo ==
    /\ _semantic = None
    /\ _cached_version = None
    /\ lookups = 0
    /\ calls = 0
    /\ returned = <<>>
    /\ pc = [t \in Threads |-> "idle"]
    /\ method = [t \in Threads |-> "none"]
    /\ prefix_of = [t \in Threads |-> <<>>]
    /\ local = [t \in Threads |-> None]

\* The SemanticVersion operations never read the package metadata.
Init ==
    /\ NoVersionMade
    /\ FreshVersionInfo
    /\ package_version = None

\* The VersionInfo operations start with some version string installed.
InitInfo ==
    /\ NoVersionMade
    /\ FreshVersionInfo
    /\ package_version \in {Some(t) : t \in PackageVersions}

(***************************************************************************)
(* SemanticVersion: one action per operation. self holds the version the    *)
(* operations are applied to, op/arg/res the last call and its outcome.     *)
(***************************************************************************)
\* An observation (compare, render, round_trip) leaves self as it is, and every
\* operation reads self alone: the successors of a state an observation ends
\* in are those of the state it was made in, so a run is followed up to its
\* first observation.
Observations == {"compare", "render", "round_trip"}

Live == self # None /\ op \notin Observations

\* Counters grow without bound; the exploration stops past MaxNum.
Small(v) == v.major <= MaxNum /\ v.minor <= MaxNum /\ v.patch <= MaxNum

Made(name, a, r) ==
    /\ op' = name
    /\ arg' = a
    /\ res' = r
    /\ self' = IF r.ok THEN r.val ELSE self
    /\ UNCHANGED infoVars

Observed(name, a, r) ==
    /\ op' = name
    /\ arg' = a
    /\ res' = r
    /\ UNCHANGED self
    /\ UNCHANGED infoVars

Construct ==
    \E a \in ConstructArgs :
        /\ op = "none"
        /\ Made("construct", a, Construct_(a))

FromPipString ==
    \E text \in Texts :
        /\ op = "none"
        /\ Made("from_pip_string", text, from_pip_string(text))

Increment ==
    \E minor \in BOOLEAN, major \in BOOLEAN :
        /\ Live
        /\ Small(self)
        /\ TruthyStr(self.prerelease_type) => self.prerelease[1] <= MaxSerial
        /\ Made("increment", <<minor, major>>, increment(self, minor, major))

Decrement ==
    /\ Live
    /\ Small(self)
    /\ Made("decrement", self, decrement(self))

ToDev ==
    \E dev_count \in DevArgs \ {None}, githash \in HashArgs :
        /\ Live
        /\ Made("to_dev", <<dev_count, githash>>, to_dev(self, dev_count, githash))

ToRelease ==
    /\ Live
    /\ Made("to_release", self, to_release(self))

\* The six comparison operators applied to (a, b).
Cmp(a, b) ==
    [eq |-> Eq(a, b), ne |-> Ne(a, b), lt |-> Lt(a, b), le |-> Le(a, b),
     gt |-> Gt(a, b), ge |-> Ge(a, b)]

Compare ==
    \E other \in InputVersions :
        /\ Live
        /\ Observed("compare", other, Ok([fwd |-> Cmp(self, other), rev |-> Cmp(other, self)]))

Render ==
    /\ Live
    /\ Observed("render", None,
                Ok([brief |-> brief_string(self), release |-> release_string(self),
                    debian |-> debian_string(self), rpm |-> rpm_string(self)]))

\* from_pip_string(self.release_string())
RoundTrip ==
    /\ Live
    /\ Observed("round_trip", release_string(self), from_pip_string(release_string(self)))

Next ==
    \/ Construct
    \/ FromPipString
    \/ Increment
    \/ Decrement
    \/ ToDev
    \/ ToRelease
    \/ Compare
    \/ Render
    \/ RoundTrip

Spec == Init /\ [][Next]_vars

\* Construction, parsing and the arithmetic alone.
NextArith ==
    \/ Construct
    \/ FromPipString
    \/ Increment
    \/ Decrement
    \/ ToDev
    \/ ToRelease

SpecArith == Init /\ [][NextArith]_vars

(***************************************************************************)
(* class VersionInfo. A call runs as the steps of its thread: the places    *)
(* where the object's fields are read or written are separate steps, since *)
(* another thread may run between any two of them.                          *)
(***************************************************************************)
Methods == {"semantic_version", "version_string", "release_string", "cached_version_string"}

\* _get_version_from_pkg_resources: the version string the package metadata
\* provides, parsed.
_get_version_from_pkg_resources(provided) == from_pip_string(provided)

\* semantic_version, line 427: if self._semantic is None
SemanticMissing(field) == field = None

\* cached_version_string never consulting what it cached.
CacheNeverConsulted(field) == TRUE

\* cached_version_string, line 446: if not self._cached_version
CacheMissing(field) == ~TruthyStr(field)

\* What a method makes of the version semantic_version() returned.
Rendered(m, v) ==
    IF m = "semantic_version" THEN v
    ELSE IF m = "release_string" THEN release_string(v)
    ELSE brief_string(v)

Goto(t, label) == pc' = [pc EXCEPT ![t] = label]

\* The call of thread t ends with outcome out.
Finish(t, out) ==
    /\ returned' = Append(returned, [method |-> method[t], prefix |-> prefix_of[t], out |-> out])
    /\ Goto(t, "idle")

\* A thread enters one of the public methods.
Enter(t, m, prefix) ==
    /\ pc[t] = "idle"
    /\ calls < MaxCalls
    /\ calls' = calls + 1
    /\ method' = [method EXCEPT ![t] = m]
    /\ prefix_of' = [prefix_of EXCEPT ![t] = prefix]
    /\ Goto(t, IF m = "cached_version_string" THEN "cvs_check" ELSE "sv_check")
    /\ UNCHANGED <<coreVars, package_version, _semantic, _cached_version, lookups, returned, local>>

Call(t) ==
    \E m \in Methods, prefix \in Prefixes :
        /\ m # "cached_version_string" => prefix = <<>>
        /\ Enter(t, m, prefix)

\* The same, no other call being in progress.
CallAlone(t) ==
    /\ \A u \in Threads : pc[u] = "idle"
    /\ Call(t)

\* cached_version_string, line 446
CvsCheck(t) ==
    /\ pc[t] = "cvs_check"
    /\ Goto(t, IF CacheMissing(_cached_version) THEN "sv_check" ELSE "cvs_return")
    /\ UNCHANGED <<coreVars, package_version, objVars, method, prefix_of, local>>

\* semantic_version, line 427
SvCheck(t) ==
    /\ pc[t] = "sv_check"
    /\ Goto(t, IF SemanticMissing(_semantic) THEN "sv_lookup" ELSE "sv_return")
    /\ UNCHANGED <<coreVars, package_version, objVars, method, prefix_of, local>>

\* semantic_version, line 428, the right-hand side: the lookup runs; what it
\* raises ends the call.
SvLookup(t) ==
    /\ pc[t] = "sv_lookup"
    /\ lookups' = lookups + 1
    /\ LET found == _get_version_from_pkg_resources(package_version[1])
       IN  IF found.ok
           THEN /\ local' = [local EXCEPT ![t] = Some(found.val)]
                /\ Goto(t, "sv_store")
                /\ UNCHANGED returned
           ELSE /\ Finish(t, found)
                /\ UNCHANGED local
    /\ UNCHANGED <<coreVars, package_version, _semantic, _cached_version, calls, method, prefix_of>>

\* semantic_version, line 428, the assignment
SvStore(t) ==
    /\ pc[t] = "sv_store"
    /\ _semantic' = local[t]
    /\ Goto(t, "sv_return")
    /\ UNCHANGED <<coreVars, package_version, _cached_version, lookups, calls, returned, method, prefix_of, local>>

\* semantic_version, line 429: return self._semantic, and what the calling
\* method makes of it (lines 423, 433, 447).
SvReturn(t) ==
    /\ pc[t] = "sv_return"
    /\ IF method[t] = "cached_version_string"
       THEN /\ local' = [local EXCEPT ![t] = Some(prefix_of[t] \o brief_string(_semantic[1]))]
            /\ Goto(t, "cvs_store")
            /\ UNCHANGED returned
       ELSE /\ Finish(t, Ok(Rendered(method[t], _semantic[1])))
            /\ UNCHANGED local
    /\ UNCHANGED <<coreVars, package_version, _semantic, _cached_version, lookups, calls, method, prefix_of>>

\* cached_version_string, line 447, the assignment
CvsStore(t) ==
    /\ pc[t] = "cvs_store"
    /\ _cached_version' = local[t]
    /\ Goto(t, "cvs_return")
    /\ UNCHANGED <<coreVars, package_version, _semantic, lookups, calls, returned, method, prefix_of, local>>

\* cached_version_string, line 449
CvsReturn(t) ==
    /\ pc[t] = "cvs_return"
    /\ Finish(t, Ok(_cached_version[1]))
    /\ UNCHANGED <<coreVars, package_version, _semantic, _cached_version, lookups, calls, method, prefix_of, local>>

Step(t) ==
    \/ CvsCheck(t)
    \/ SvCheck(t)
    \/ SvLookup(t)
    \/ SvStore(t)
    \/ SvReturn(t)
    \/ CvsStore(t)
    \/ CvsReturn(t)

\* Calls made one after the other.
NextSeq == \E t \in Threads : CallAlone(t) \/ Step(t)

SpecSeq == InitInfo /\ [][NextSeq]_vars

\* Calls made by threads that run concurrently.
NextConc == \E t \in Threads : Call(t) \/ Step(t)

SpecConc == InitInfo /\ [][NextConc]_vars

(***************************************************************************)
(* The properties.                                                          *)
(***************************************************************************)
IsFinal(v) == v.prerelease_type = None /\ v.dev_count = None

IsPre(v) == v.prerelease_type # None

IsDev(v) == v.dev_count # None

SameTriple(a, b) == a.major = b.major /\ a.minor = b.minor /\ a.patch = b.patch

True == Ok(TRUE)

False == Ok(FALSE)

\* C1: constructing a version with both prerelease_type and dev_count given
\* fails with ValueError, and no version made by construction, parsing,
\* increment, decrement, to_dev or to_release has both of them set.
C1_NeverBothSet ==
    /\ (op = "construct" /\ arg.prerelease_type # None /\ arg.dev_count # None)
            => (~res.ok /\ res.err = "ValueError")
    /\ self # None => ~(self.prerelease_type # None /\ self.dev_count # None)

C1_BothGivenRefused ==
    /\ op = "construct"
    /\ arg.prerelease_type # None
    /\ arg.dev_count = Some(0)
    /\ ~res.ok

\* C2: with equal triples, a final release is greater than any prerelease
\* and any dev build (a > b, b < a, not a < b), and two final releases are
\* equal and neither is less or greater.
C2_FinalAboveQualified ==
    (op = "compare" /\ SameTriple(self, arg) /\ IsFinal(self)) =>
        /\ (IsPre(arg) \/ IsDev(arg)) =>
                /\ res.val.fwd.gt = True
                /\ res.val.rev.lt = True
                /\ res.val.fwd.lt = False
        /\ IsFinal(arg) =>
                /\ res.val.fwd.eq
                /\ res.val.fwd.lt = False
                /\ res.val.fwd.gt = False

UndefinedOrderCase(a, b) ==
    /\ SameTriple(a, b)
    /\ \/ IsPre(a) /\ IsDev(b)
       \/ IsDev(a) /\ IsPre(b)
       \/ IsDev(a) /\ IsDev(b) /\ a.dev_count = b.dev_count /\ a.githash # b.githash

\* C3: a < b raises TypeError exactly when the triples are equal and either
\* one is a prerelease and the other a dev build, or both are dev builds of
\* equal dev_count and different hashes; it is a boolean otherwise. Dev
\* builds of one triple are ordered by dev_count, and with equal dev_count
\* and hash neither is less.
C3_UndefinedOrderExactly ==
    op = "compare" =>
        /\ UndefinedOrderCase(self, arg) => res.val.fwd.lt = Raise("TypeError")
        /\ ~UndefinedOrderCase(self, arg) => res.val.fwd.lt.ok
        /\ (SameTriple(self, arg) /\ IsDev(self) /\ IsDev(arg)) =>
                /\ self.dev_count # arg.dev_count =>
                        res.val.fwd.lt = Ok(self.dev_count[1] < arg.dev_count[1])
                /\ (self.dev_count = arg.dev_count /\ self.githash = arg.githash) =>
                        (res.val.fwd.lt = False /\ res.val.rev.lt = False)

Comparable(a, b) ==
    /\ Cmp(a, b).lt.ok /\ Cmp(a, b).le.ok /\ Cmp(a, b).gt.ok /\ Cmp(a, b).ge.ok
    /\ Cmp(b, a).lt.ok /\ Cmp(b, a).le.ok /\ Cmp(b, a).gt.ok /\ Cmp(b, a).ge.ok

Holds(r) == r.ok /\ r.val

ExactlyOne(p, q, r) == (p /\ ~q /\ ~r) \/ (~p /\ q /\ ~r) \/ (~p /\ ~q /\ r)

\* C4: on the pairs whose comparisons raise nothing the operators form a
\* total order: equality is reflexive, < and > are antisymmetric, <= both
\* ways gives ==, < is transitive, and exactly one of <, ==, > holds.
C4_TotalOrder ==
    (op = "compare" /\ Comparable(self, arg)) =>
        LET f == res.val.fwd
            r == res.val.rev
        IN  /\ Eq(self, self) /\ Holds(Le(self, self))
            /\ ~(Holds(f.lt) /\ Holds(r.lt))
            /\ ~(Holds(f.gt) /\ Holds(r.gt))
            /\ (Holds(f.le) /\ Holds(r.le)) => f.eq
            /\ ExactlyOne(Holds(f.lt), f.eq, Holds(f.gt))
            /\ \A c \in InputVersions :
                    (Comparable(arg, c) /\ Comparable(self, c)
                     /\ Holds(f.lt) /\ Holds(Lt(arg, c))) => Holds(Lt(self, c))

PrereleaseTypes == {<<"a">>, <<"b">>, <<"r", "c">>}

InDataModel(v) ==
    \/ IsFinal(v) /\ v.prerelease = None /\ v.githash = None
    \/ /\ IsPre(v) /\ v.prerelease_type[1] \in PrereleaseTypes
       /\ v.prerelease # None /\ v.prerelease[1] >= 0
       /\ v.dev_count = None /\ v.githash = None
    \/ /\ IsDev(v) /\ v.dev_count[1] >= 0
       /\ v.prerelease_type = None /\ v.prerelease = None

\* C5: for every version of the data model, parsing its release_string
\* succeeds and gives a version equal to it.
C5_RoundTrip ==
    (op = "round_trip" /\ InDataModel(self)) => (res.ok /\ Eq(res.val, self))

LegacyText(major, minor, patch, n, hash) ==
    Join(<<StrOfInt(major), StrOfInt(minor), StrOfInt(patch), StrOfInt(n), <<"g">> \o hash>>)

CanonicalDevText(major, minor, patch, n, hash) ==
    Join(<<StrOfInt(major), StrOfInt(minor), StrOfInt(patch),
           <<"d", "e", "v">> \o StrOfInt(n), <<"g">> \o hash>>)

\* C6: major.minor.patch.N.gHASH parses, for every N including 0, to the
\* dev build N of major.minor.patch with hash HASH and no prerelease, whose
\* release_string is major.minor.patch.devN.gHASH.
C6_LegacyLayoutParses ==
    op = "from_pip_string" =>
        \A major \in Nums, minor \in {0, 10}, patch \in Nums, n \in 0..MaxDev, hash \in Hashes :
            arg = LegacyText(major, minor, patch, n, hash) =>
                /\ res.ok
                /\ res.val = Version(major, minor, patch, None, None, Some(n), Some(hash))
                /\ release_string(res.val) = CanonicalDevText(major, minor, patch, n, hash)

\* The 9999 borrow rule, as the triple it yields.
Borrowed(v) ==
    IF v.patch > 0 THEN <<v.major, v.minor, v.patch - 1>>
    ELSE IF v.minor > 0 THEN <<v.major, v.minor - 1, 9999>>
    ELSE IF v.major > 0 THEN <<v.major - 1, 9999, 9999>>
    ELSE <<0, 9999, 9999>>

\* C7: decrement() of any version is the final release the 9999 borrow rule
\* gives, is strictly less than the version's to_release(), and has no
\* negative component.
C7_DecrementPrecedes ==
    op = "decrement" =>
        /\ res.ok
        /\ IsFinal(res.val)
        /\ <<res.val.major, res.val.minor, res.val.patch>> = Borrowed(arg)
        /\ res.val.major >= 0 /\ res.val.minor >= 0 /\ res.val.patch >= 0
        /\ Lt(res.val, to_release(arg).val) = True

\* The render algorithm of the specification: a qualifier is present when
\* it is not None.
SpecRender(v, pre_separator, hash_separator, rc_marker, rollover_mode) ==
    LET roll == (IsPre(v) \/ IsDev(v)) /\ rollover_mode
        sep == IF roll THEN <<".">> ELSE pre_separator
        start == IF roll THEN brief_string(decrement(v).val) ELSE brief_string(v)
        pre == IF IsPre(v)
               THEN sep \o rc_marker \o v.prerelease_type[1] \o StrOfInt(v.prerelease[1])
               ELSE <<>>
        dev == IF IsDev(v)
               THEN sep \o <<"d", "e", "v">> \o StrOfInt(v.dev_count[1])
                    \o (IF v.githash # None THEN hash_separator \o v.githash[1] ELSE <<>>)
               ELSE <<>>
    IN  start \o pre \o dev

\* C8: release_string, debian_string and rpm_string are the render
\* algorithm with ('.', '.g', '0'), ('~', '+g', '') and rollover mode with
\* '+g': the prerelease segment when a type is present, the dev segment for
\* every dev_count that is present, then the hash.
C8_RenderAlgorithm ==
    op = "render" =>
        /\ res.val.release = SpecRender(self, <<".">>, <<".", "g">>, <<"0">>, FALSE)
        /\ res.val.debian = SpecRender(self, <<"~">>, <<"+", "g">>, <<>>, FALSE)
        /\ res.val.rpm = SpecRender(self, <<".">>, <<"+", "g">>, <<>>, TRUE)

\* C9: whatever the interleaving of the threads' calls, the metadata lookup
\* runs at most once (for a version string that parses, so that no lookup
\* is repeated because it failed).
C9_AtMostOneLookup ==
    _get_version_from_pkg_resources(package_version[1]).ok => lookups <= 1

IsCachedReturn(r) == r.method = "cached_version_string" /\ r.out.ok

\* C10: in a series of calls made one after the other, every
\* cached_version_string call returns the prefix of the first such call
\* followed by the brief version string, whatever its own prefix, and the
\* lookup runs at most once when it succeeds.
C10_CachedStringFixed ==
    LET cached == SelectSeq(returned, IsCachedReturn)
        found == _get_version_from_pkg_resources(package_version[1])
    IN  /\ \A i \in 1..Len(cached) :
                cached[i].out.val = cached[1].prefix \o brief_string(found.val)
        /\ found.ok => lookups <= 1

C10_LaterPrefixIgnored ==
    LET cached == SelectSeq(returned, IsCachedReturn)
    IN  /\ Len(cached) >= 2
        /\ cached[2].prefix # cached[1].prefix
        /\ cached[2].out.val = cached[1].out.val
        /\ lookups = 1

====
